---- MODULE Spec2Model ----
(***************************************************************************)
(* Model of magic-home-rs (src/src/lib.rs): a MagicHome session that       *)
(* holds an optional TcpStream and speaks the LEDENET byte protocol.       *)
(* The session is single-threaded and blocking, so every public method is  *)
(* one atomic action.  The transport (TcpStream::connect, Write::write,    *)
(* Read::read) and the controller on the other end are the environment:    *)
(* their outcomes are inputs of the actions.                               *)
(***************************************************************************)
EXTENDS Integers, Sequences, FiniteSets

VARIABLES
    stream,         \* MagicHome.stream: None or the handle of the stored TcpStream
    rx,             \* bytes the peer has sent on the stored stream and read() has not yet delivered
    open,           \* handles of the TcpStreams that are currently open (not yet dropped)
    devPower,       \* controller: power byte of the last SetPower frame it received
    devColor,       \* controller: <<r, g, b>> of the last SetColor frame it received
    everConnected,  \* history: some connect call has returned Ok
    op,             \* last public method called
    arg,            \* its argument (rgb array, power flag, or <<>>)
    result,         \* what it returned: "Ok", "NotConnected" or "IoError"
    ret,            \* the value inside Ok: a MagicHomeState for state(), else NoValue
    feedback,       \* the feedback_buf get_state returned to the last method (<<>> if it returned none)
    io,             \* transport calls made by the last method, in order
    stale,          \* number of bytes that were already pending in rx when the last method's read was issued
    peakOpen,       \* largest number of TcpStreams open at once during the last method
    memo            \* history: one frame written by an earlier call, with its kind and argument (and, in SpecMemo, the number of calls made)

vars == <<stream, rx, open, devPower, devColor, everConnected,
          op, arg, result, ret, feedback, io, stale, peakOpen, memo>>

----------------------------------------------------------------------------
(* Bounds of the model *)

\* read() is only issued while at most MaxRx bytes would be pending
MaxRx == 23

\* number of calls in a behaviour whose frames are compared with an earlier one
MaxCalls == 4

\* rgb arrays used as set_color arguments (and as the controller's first colour)
Colors == {<<16, 32, 48>>, <<255, 0, 255>>}

\* byte counts a read() may deliver (0 = end of stream, 14 = a whole reply)
ReadSizes == {0, 5, 14}

\* power bytes the controller may report before the first SetPower frame
InitPowerBytes == {35, 36, 0}

----------------------------------------------------------------------------
(* Values *)

None == 0
Handles == {1, 2}
Err == -1
NoCall == -2
NoMemo == [kind |-> "none", arg |-> <<>>, buf |-> <<>>, calls |-> 0]
NoValue == [is_enabled |-> FALSE, red |-> -1, green |-> -1, blue |-> -1]

U8 == 256
FeedbackLen == 14

----------------------------------------------------------------------------
(* Codec *)

\* buf.iter().fold(0u64, |a, b| a + (*b as u64)).  The accumulator is 64 bits
\* wide and a frame has at most 14 bytes of at most 255 each, so the sum never
\* wraps and is the mathematical sum.
RECURSIVE fold_u64(_, _)
fold_u64(a, buf) ==
    IF buf = <<>> THEN a
    ELSE fold_u64(a + Head(buf), Tail(buf))

\* ... as u8
get_checksum_low7(buf) == fold_u64(0, buf) % 128
get_checksum(buf) == fold_u64(0, buf) % U8

QueryFrame_swapped == LET query_buf == <<129, 139, 138>>
                      IN  Append(query_buf, get_checksum(query_buf))
QueryFrame == LET query_buf == <<129, 138, 139>>
              IN  Append(query_buf, get_checksum(query_buf))

SetColorFrame_bgr(rgb) ==
    LET buf == <<49, rgb[3], rgb[2], rgb[1], 0, 240, 15>>
    IN  Append(buf, get_checksum(buf))
SetColorFrame(rgb) ==
    LET buf == <<49>> \o rgb \o <<0, 240, 15>>
    IN  Append(buf, get_checksum(buf))

PowerFrame_toggle(value) ==
    LET power_byte == IF devPower = 35 THEN 36 ELSE 35
        buf == <<113, power_byte, 15>>
    IN  Append(buf, get_checksum(buf))
PowerFrame_inverted(value) ==
    LET power_byte == IF value THEN 36 ELSE 35
        buf == <<113, power_byte, 15>>
    IN  Append(buf, get_checksum(buf))
PowerFrame(value) ==
    LET power_byte == IF value THEN 35 ELSE 36
        buf == <<113, power_byte, 15>>
    IN  Append(buf, get_checksum(buf))

Zeros(n) == [i \in 1..n |-> 0]

\* MagicHomeState built from the feedback buffer (0-based offsets 2, 6, 7, 8)
Decode_onlyOn(state) ==
    [is_enabled |-> state[3] = 35,
     red |-> state[7], green |-> state[8], blue |-> state[9]]
Decode(state) ==
    [is_enabled |-> state[3] # 36,
     red |-> state[7], green |-> state[8], blue |-> state[9]]

----------------------------------------------------------------------------
(* Environment: the controller and the transport *)

\* The 14-byte status reply of the controller (layout of lib.rs:4-21).  The
\* controller reports its power byte at offset 2 and its colour at offsets
\* 6..8; good = FALSE is a reply whose checksum byte is wrong.
DeviceReply(p, c, good) ==
    LET body == <<129, 37, p, 97, 33, 6, c[1], c[2], c[3], 249, 1, 0, 15>>
        sum == get_checksum(body)
    IN  Append(body, IF good THEN sum ELSE (sum + 1) % U8)

\* outcomes of Write::write(buf): Err, or Ok(n) with n bytes accepted
WriteOutcomes(buf) == {Err} \cup (0..Len(buf))

\* outcomes of Read::read(buf) with `pending` bytes receivable: Err, or Ok(n)
ReadOutcomes(pending) ==
    {Err} \cup {n \in ReadSizes : n <= Len(pending) /\ n <= FeedbackLen}

WriteCall(buf, w) == [call |-> "write", buf |-> buf, res |-> w]
ReadCall(r) == [call |-> "read", buf |-> <<>>, res |-> r]
DialCall(d) == [call |-> "dial", buf |-> <<>>, res |-> d]

\* what the peer has made receivable after write(buf) returned w: the
\* controller answers a query frame it received completely with `reply`
AfterQueryWrite(pending, buf, w, reply) ==
    IF w = Len(buf) THEN pending \o reply ELSE pending

----------------------------------------------------------------------------
(* get_state: one write of the query frame, then one read into a zeroed     *)
(* 14-byte buffer; the byte counts returned by write and read are dropped.  *)

\* the feedback buffer after read() returned Ok(n): n received bytes, rest 0
FeedbackBuf(pending, n) == SubSeq(pending, 1, n) \o Zeros(FeedbackLen - n)

\* `stream.write(&query_buf)?` : the call fails exactly when write returns Err
WriteFailed(buf, w) == w = Err

\* `stream.read(&mut feedback_buf)?` : fails exactly when read returns Err
ReadFailed(r) == r = Err

\* get_state with a validation of the buffer read, which the code lacks
get_state_validating(pending, w, reply, r, Accept(_)) ==
    LET query_buf == QueryFrame
        wcall == WriteCall(query_buf, w)
        pend1 == AfterQueryWrite(pending, query_buf, w, reply)
    IN  IF WriteFailed(query_buf, w)
        THEN [ok |-> FALSE, buf |-> <<>>, rx |-> pending,
              io |-> <<wcall>>, stale |-> 0]
        ELSE IF ReadFailed(r)
        THEN [ok |-> FALSE, buf |-> <<>>, rx |-> pend1,
              io |-> <<wcall, ReadCall(r)>>, stale |-> Len(pending)]
        ELSE [ok |-> Accept(FeedbackBuf(pend1, r)), buf |-> FeedbackBuf(pend1, r),
              rx |-> SubSeq(pend1, r + 1, Len(pend1)),
              io |-> <<wcall, ReadCall(r)>>, stale |-> Len(pending)]
HeadOk(buf) == buf[1] = 129
ChecksumOk(buf) == buf[FeedbackLen] = get_checksum(SubSeq(buf, 1, FeedbackLen - 1))
get_state_headChecked(pending, w, reply, r) ==
    get_state_validating(pending, w, reply, r, HeadOk)
get_state_verified(pending, w, reply, r) ==
    get_state_validating(pending, w, reply, r, ChecksumOk)

get_state(pending, w, reply, r) ==
    LET query_buf == QueryFrame
        wcall == WriteCall(query_buf, w)
        pend1 == AfterQueryWrite(pending, query_buf, w, reply)
    IN  IF WriteFailed(query_buf, w)
        THEN [ok |-> FALSE, buf |-> <<>>, rx |-> pending,
              io |-> <<wcall>>, stale |-> 0]
        ELSE IF ReadFailed(r)
        THEN [ok |-> FALSE, buf |-> <<>>, rx |-> pend1,
              io |-> <<wcall, ReadCall(r)>>, stale |-> Len(pending)]
        ELSE [ok |-> TRUE, buf |-> FeedbackBuf(pend1, r),
              rx |-> SubSeq(pend1, r + 1, Len(pend1)),
              io |-> <<wcall, ReadCall(r)>>, stale |-> Len(pending)]

\* the read outcomes possible inside get_state, given the write outcome
GetStateReads(pending, w, reply) ==
    IF w = Err THEN {NoCall}
    ELSE ReadOutcomes(AfterQueryWrite(pending, QueryFrame, w, reply))

----------------------------------------------------------------------------
(* MagicHome *)

\* is_connected(): self.stream.is_some()
is_connected == stream # None

\* self.stream.as_ref().ok_or(NotConnected)
HasStream_always(s) == TRUE
HasStream(s) == s # None

\* connect() assigns self.stream only after get_state returned Ok
ConnectStore_eager(old, new, ok) == new
ConnectStore_clearOnFail(old, new, ok) == IF ok THEN new ELSE None
ConnectStore(old, new, ok) == IF ok THEN new ELSE old

\* state/set_color/power never assign self.stream, whatever they return
KeepStream_dropOnError(s, res) == IF res = "Ok" THEN s ELSE None
KeepStream(s, res) == s

\* a handle for a TcpStream that is not open yet
FreshHandle == CHOOSE h \in Handles : h \notin open

Init ==
    /\ stream = None
    /\ rx = <<>>
    /\ open = {}
    /\ devPower \in InitPowerBytes
    /\ devColor \in Colors
    /\ everConnected = FALSE
    /\ op = "new"
    /\ arg = <<>>
    /\ result = "Ok"
    /\ ret = NoValue
    /\ feedback = <<>>
    /\ io = <<>>
    /\ stale = 0
    /\ peakOpen = 0
    /\ memo = NoMemo

\* connect(addr), dial refused
ConnectDialFail ==
    /\ op' = "connect" /\ arg' = <<>>
    /\ result' = "IoError" /\ ret' = NoValue /\ feedback' = <<>>
    /\ io' = <<DialCall(Err)>>
    /\ stale' = 0
    /\ peakOpen' = Cardinality(open)
    /\ UNCHANGED <<stream, rx, open, devPower, devColor, everConnected>>

\* connect(addr), dial succeeded: handshake through get_state(&stream)
ConnectDialOk ==
    \E good \in BOOLEAN, w \in WriteOutcomes(QueryFrame) :
    \E reply \in {DeviceReply(devPower, devColor, good)} :
    \E r \in GetStateReads(<<>>, w, reply) :
    \E g \in {get_state(<<>>, w, reply, r)} :
        LET new == FreshHandle
            kept == ConnectStore(stream, new, g.ok)
        IN  /\ op' = "connect" /\ arg' = <<>>
            /\ result' = IF g.ok THEN "Ok" ELSE "IoError"
            /\ ret' = NoValue
            /\ feedback' = g.buf
            /\ io' = <<DialCall(0)>> \o g.io
            /\ stale' = g.stale
            /\ peakOpen' = Cardinality(open \cup {new})
            /\ stream' = kept
            /\ rx' = IF kept = new THEN g.rx ELSE rx
            /\ open' = IF kept = None THEN {} ELSE {kept}
            /\ everConnected' = (everConnected \/ g.ok)
            /\ UNCHANGED <<devPower, devColor>>

Connect == ConnectDialFail \/ ConnectDialOk

\* state() / set_color() / power() on a session without a stream
NotConnectedReturn(name, a) ==
    /\ op' = name /\ arg' = a
    /\ result' = "NotConnected" /\ ret' = NoValue /\ feedback' = <<>>
    /\ io' = <<>>
    /\ stale' = 0
    /\ peakOpen' = Cardinality(open)
    /\ stream' = KeepStream(stream, "NotConnected")
    /\ UNCHANGED <<rx, open, devPower, devColor, everConnected>>

State ==
    IF ~HasStream(stream) THEN NotConnectedReturn("state", <<>>)
    ELSE
    /\ Len(rx) + FeedbackLen <= MaxRx
    /\ \E good \in BOOLEAN, w \in WriteOutcomes(QueryFrame) :
       \E reply \in {DeviceReply(devPower, devColor, good)} :
       \E r \in GetStateReads(rx, w, reply) :
       \E g \in {get_state(rx, w, reply, r)} :
        LET res == IF g.ok THEN "Ok" ELSE "IoError"
        IN  /\ op' = "state" /\ arg' = <<>>
            /\ result' = res
            /\ ret' = IF g.ok THEN Decode(g.buf) ELSE NoValue
            /\ feedback' = g.buf
            /\ io' = g.io
            /\ stale' = g.stale
            /\ peakOpen' = Cardinality(open)
            /\ stream' = KeepStream(stream, res)
            /\ rx' = g.rx
            /\ UNCHANGED <<open, devPower, devColor, everConnected>>

\* the transport calls of set_color / power: `stream.write(&buf)` and no more
CommandCalls_withAck(buf, w) ==
    IF w = Err THEN <<WriteCall(buf, w)>> ELSE <<WriteCall(buf, w), ReadCall(0)>>
CommandCalls(buf, w) == <<WriteCall(buf, w)>>

\* a fire-and-forget command: one write of `buf`, no read
Command(name, a, buf, w) ==
    LET res == IF WriteFailed(buf, w) THEN "IoError" ELSE "Ok"
    IN  /\ op' = name /\ arg' = a
        /\ result' = res /\ ret' = NoValue /\ feedback' = <<>>
        /\ io' = CommandCalls(buf, w)
        /\ stale' = 0
        /\ peakOpen' = Cardinality(open)
        /\ stream' = KeepStream(stream, res)
        /\ UNCHANGED <<rx, open, everConnected>>

SetColor ==
    \E rgb \in Colors :
        IF ~HasStream(stream) THEN
            /\ NotConnectedReturn("set_color", rgb)
        ELSE \E buf \in {SetColorFrame(rgb)} : \E w \in WriteOutcomes(buf) :
            /\ Command("set_color", rgb, buf, w)
            /\ devColor' = IF w = Len(buf) THEN rgb ELSE devColor
            /\ UNCHANGED devPower

Power ==
    \E value \in BOOLEAN :
        IF ~HasStream(stream) THEN
            /\ NotConnectedReturn("power", <<value>>)
        ELSE \E buf \in {PowerFrame(value)} : \E w \in WriteOutcomes(buf) :
            /\ Command("power", <<value>>, buf, w)
            /\ devPower' = IF w = Len(buf) THEN buf[2] ELSE devPower
            /\ UNCHANGED devColor

\* Each public method, called on the session; memo is not used
ConnectCall == Connect /\ UNCHANGED memo
StateCall == State /\ UNCHANGED memo
SetColorCall == SetColor /\ UNCHANGED memo
PowerCall == Power /\ UNCHANGED memo

Next == ConnectCall \/ StateCall \/ SetColorCall \/ PowerCall

Spec == Init /\ [][Next]_vars

\* the kind of frame a call writes: connect and state both write the query
FrameKind(o) == IF o \in {"connect", "state"} THEN "query" ELSE o

\* The same calls, counted, with one of the frames written so far kept in
\* memo: the first frame remembered stays, so that every later write is
\* compared with a frame written any number of calls earlier.
Remember ==
    /\ memo.calls < MaxCalls
    /\ \E m \in IF memo.kind # "none" THEN {memo}
                ELSE {memo} \cup
                     {[kind |-> FrameKind(op'), arg |-> arg', buf |-> io'[i].buf,
                       calls |-> memo.calls] :
                        i \in {j \in DOMAIN io' : io'[j].call = "write"}} :
          memo' = [m EXCEPT !.calls = memo.calls + 1]

ConnectTracked == Connect /\ Remember
StateTracked == State /\ Remember
SetColorTracked == SetColor /\ Remember
PowerTracked == Power /\ Remember

NextMemo == ConnectTracked \/ StateTracked \/ SetColorTracked \/ PowerTracked

SpecMemo == Init /\ [][NextMemo]_vars

\* The same calls, with the last power call kept in memo: a power call
\* that returned Ok and whose write took the whole frame is remembered with
\* its argument; any other power call forgets it; other calls leave it.
TrackPower ==
    memo' = IF op' # "power" THEN memo
            ELSE IF result' = "Ok" /\ io'[1].res = Len(io'[1].buf)
            THEN [kind |-> "power", arg |-> arg', buf |-> io'[1].buf, calls |-> 0]
            ELSE NoMemo

ConnectAfterPower == Connect /\ TrackPower
StateAfterPower == State /\ TrackPower
SetColorAfterPower == SetColor /\ TrackPower
PowerAfterPower == Power /\ TrackPower

NextPower ==
    ConnectAfterPower \/ StateAfterPower \/ SetColorAfterPower \/ PowerAfterPower

SpecPower == Init /\ [][NextPower]_vars

----------------------------------------------------------------------------
(* Observations on the last call *)

Commands == {"state", "set_color", "power"}

\* the write calls / read calls the last method made
Writes == {i \in DOMAIN io : io[i].call = "write"}
Reads == {i \in DOMAIN io : io[i].call = "read"}

\* some transport call of the last method returned Err
TransportFailed == \E i \in DOMAIN io : io[i].res = Err

\* arithmetic sum of a byte sequence
RECURSIVE ByteSum(_)
ByteSum(s) == IF s = <<>> THEN 0 ELSE Head(s) + ByteSum(Tail(s))

AllButLast(s) == SubSeq(s, 1, Len(s) - 1)

----------------------------------------------------------------------------
(* Claims *)

\* C1: while no connect call has returned success, state(), set_color(rgb)
\* and power(value) return NotConnected for every argument and make no
\* write and no read call on any stream.
C1_NotConnectedWithoutIo ==
    (~everConnected /\ op \in Commands) =>
        (result = "NotConnected" /\ io = <<>> /\ ret = NoValue)

C1_Witness ==
    /\ ~everConnected /\ op = "set_color" /\ arg = <<16, 32, 48>>
    /\ result = "NotConnected" /\ io = <<>>

\* C2: a connect call on a Disconnected session whose dial, query write or
\* reply read fails returns the I/O error and leaves the session
\* Disconnected with no stream stored (and none left open).
C2_FailedConnectStaysDisconnected ==
    [][(stream = None /\ op' = "connect" /\ TransportFailed')
        => (result' = "IoError" /\ stream' = None /\ ~is_connected' /\ open' = {})]_vars

C2_Witness ==
    /\ ~everConnected /\ op = "connect" /\ result = "IoError"
    /\ Len(io) = 3 /\ io[3].call = "read" /\ io[3].res = Err
    /\ stream = None

\* C3: is_connected() is true exactly when some earlier connect call has
\* returned success; the session starts Disconnected and, once Connected,
\* no later call makes is_connected() false again.
C3_ConnectedIffConnectSucceeded ==
    /\ [](is_connected <=> everConnected)
    /\ [][is_connected => is_connected']_vars

C3_Witness ==
    /\ is_connected /\ everConnected
    /\ op = "connect" /\ result = "IoError"

\* C4: state() on a Connected session fails with the Io error whenever the
\* read of the reply delivered fewer than 14 bytes.
C4_PartialReadIsError ==
    (op = "state" /\ \E i \in Reads : io[i].res >= 0 /\ io[i].res < FeedbackLen)
        => result = "IoError"

\* C5: an operation whose write accepted fewer bytes than the full frame
\* returns an Io error rather than success.
C5_ShortWriteIsError ==
    (\E i \in Writes : io[i].res >= 0 /\ io[i].res < Len(io[i].buf))
        => result = "IoError"

\* C6: a state(), set_color() or power() call that returns an error leaves
\* the connection state and the stored stream handle as they were.
C6_FailedCommandKeepsSession ==
    [][(op' \in Commands /\ result' \in {"NotConnected", "IoError"})
        => (stream' = stream /\ is_connected' = is_connected /\ open' = open)]_vars

C6_Witness ==
    /\ op = "state" /\ result = "IoError" /\ is_connected
    /\ Len(io) = 2 /\ io[2].res = Err

\* C7: every frame handed to the stream ends in a byte equal to the sum of
\* all its preceding bytes modulo 256.
C7_FramesEndInChecksum ==
    \A i \in Writes :
        /\ Len(io[i].buf) >= 2
        /\ io[i].buf[Len(io[i].buf)] = ByteSum(AllButLast(io[i].buf)) % 256

C7_Witness ==
    /\ op = "set_color" /\ arg = <<255, 0, 255>> /\ result = "Ok"
    /\ Writes = {1} /\ io[1].buf[8] = 46

\* C8 as stated: power(true) on a Connected session writes exactly
\* 71 23 0F A7 and power(false) exactly 71 24 0F A8.
C8_PowerFrameBytesAsStated ==
    (op = "power" /\ result # "NotConnected") =>
        /\ Len(io) = 1 /\ io[1].call = "write"
        /\ io[1].buf = IF arg[1] THEN <<113, 35, 15, 167>>
                                 ELSE <<113, 36, 15, 168>>

\* C8 amended: power(true) on a Connected session writes exactly 71 23 0F A3
\* and power(false) exactly 71 24 0F A4 (the last byte is the sum of the
\* first three modulo 256), whatever the controller's power state.
C8_PowerFrameBytes ==
    (op = "power" /\ result # "NotConnected") =>
        /\ Len(io) = 1 /\ io[1].call = "write"
        /\ io[1].buf = IF arg[1] THEN <<113, 35, 15, 163>>
                                 ELSE <<113, 36, 15, 164>>

C8_Witness ==
    /\ op = "power" /\ arg = <<TRUE>> /\ result = "Ok"
    /\ io[1].buf = <<113, 35, 15, 163>> /\ io[1].res = 4 /\ devPower = 35

\* C9: set_color([r, g, b]) on a Connected session writes exactly the 8
\* bytes 31 r g b 00 F0 0F c, c being the sum of the first 7 modulo 256.
C9_SetColorFrameBytes ==
    (op = "set_color" /\ result # "NotConnected") =>
        /\ Len(io) = 1 /\ io[1].call = "write"
        /\ io[1].buf = <<49, arg[1], arg[2], arg[3], 0, 240, 15,
                         (49 + arg[1] + arg[2] + arg[3] + 0 + 240 + 15) % 256>>

C9_Witness ==
    /\ op = "set_color" /\ arg = <<16, 32, 48>> /\ result = "Ok"
    /\ io[1].buf = <<49, 16, 32, 48, 0, 240, 15, 144>>

\* C10: the query frame written by connect and by every state() call is
\* exactly the 4 bytes 81 8A 8B 96.
C10_QueryFrameBytes ==
    (op \in {"connect", "state"}) =>
        \A i \in Writes : io[i].buf = <<129, 138, 139, 150>>

C10_Witness ==
    /\ op = "state" /\ result = "Ok" /\ Writes = {1}
    /\ io[1].buf = <<129, 138, 139, 150>> /\ io[1].res = 4

\* C11: for the 14-byte buffer b a successful state() call obtained, the
\* returned state has is_enabled = (b[2] # 0x24), red = b[6], green = b[7],
\* blue = b[8]; is_enabled is true for every power byte other than 0x24.
C11_StateProjectsBuffer ==
    (op = "state" /\ result = "Ok") =>
        /\ Len(feedback) = FeedbackLen
        /\ ret.is_enabled = (feedback[3] # 36)
        /\ ret.red = feedback[7]
        /\ ret.green = feedback[8]
        /\ ret.blue = feedback[9]

C11_Witness ==
    /\ op = "state" /\ result = "Ok"
    /\ io[1].res = 4 /\ io[2].res = FeedbackLen /\ stale = 0
    /\ feedback[3] = 0 /\ ret.is_enabled
    /\ <<ret.red, ret.green, ret.blue>> = <<16, 32, 48>>

\* C12: on a Connected session a successful set_color or power call makes
\* exactly one write and no read; a successful state call makes exactly one
\* write of the query frame followed by exactly one read; no call reads
\* before it has written; set_color/power succeed exactly when their write
\* reported no transport error.
C12_IoPerOperation ==
    /\ (op \in {"set_color", "power"} /\ result = "Ok") =>
            (Len(io) = 1 /\ io[1].call = "write" /\ Reads = {})
    /\ (op \in {"set_color", "power"} /\ result # "NotConnected") =>
            (result = "Ok" <=> io[1].res # Err)
    /\ (op = "state" /\ result = "Ok") =>
            /\ Len(io) = 2
            /\ io[1].call = "write" /\ io[1].buf = <<129, 138, 139, 150>>
            /\ io[2].call = "read"
    /\ \A i \in Reads : \E j \in Writes : j < i

C12_Witness ==
    /\ op = "state" /\ result = "Ok" /\ is_connected
    /\ Len(io) = 2 /\ io[1].call = "write" /\ io[2].call = "read"
    /\ io[2].res = FeedbackLen

\* C13: the frame a call writes depends on its arguments alone: a set_color
\* with the same rgb, a power with the same value, or a query exchange
\* writes a frame byte-identical to the one an earlier such call wrote,
\* whatever calls ran in between.
C13_SameArgumentsSameFrame ==
    \A i \in Writes :
        (memo.kind = FrameKind(op) /\ memo.arg = arg)
            => io[i].buf = memo.buf

C13_Witness ==
    /\ memo.kind = "power" /\ memo.arg = <<TRUE>> /\ memo.calls >= 4
    /\ op = "power" /\ arg = <<TRUE>> /\ result = "Ok"
    /\ devPower = 35 /\ io[1].buf = memo.buf

\* the last byte of a 14-byte buffer is not the sum of the other 13 mod 256
BadChecksum(b) ==
    /\ Len(b) = FeedbackLen
    /\ b[FeedbackLen] # ByteSum(AllButLast(b)) % 256

\* C14: connect stores the stream only after the query write and the reply
\* read on the new stream have both returned without error, and then it
\* always succeeds: whatever bytes the read left in the buffer, they are
\* discarded unchecked and the session becomes Connected.
C14_ConnectAcceptsAnyReply ==
    /\ [](op = "connect" =>
            /\ result = "Ok" <=> (Len(io) = 3 /\ ~TransportFailed)
            /\ result = "Ok" =>
                (/\ io[1].call = "dial" /\ io[2].call = "write" /\ io[3].call = "read"
                 /\ is_connected /\ ret = NoValue))
    /\ [][(op' = "connect" /\ stream' # stream)
            => (result' = "Ok" /\ Len(io') = 3 /\ ~TransportFailed')]_vars

C14_Witness ==
    /\ op = "connect" /\ result = "Ok" /\ is_connected
    /\ io[3].res = FeedbackLen /\ BadChecksum(feedback)

\* C15: state() does not verify the checksum of the reply: whenever its
\* write and its read returned without error it returns Ok with the fields
\* projected from the buffer, whether or not byte 13 is the sum of bytes
\* 0..12 modulo 256.
C15_StateIgnoresChecksum ==
    (op = "state" /\ Len(io) = 2 /\ ~TransportFailed) =>
        /\ result = "Ok"
        /\ Len(feedback) = FeedbackLen
        /\ <<ret.red, ret.green, ret.blue>> = <<feedback[7], feedback[8], feedback[9]>>

C15_Witness ==
    /\ op = "state" /\ result = "Ok"
    /\ io[1].res = 4 /\ io[2].res = FeedbackLen /\ stale = 0
    /\ BadChecksum(feedback)
    /\ <<ret.red, ret.green, ret.blue>> = <<255, 0, 255>>

\* C16: the session never has more than one stream open: at most one at
\* every point of every call (also while a connect on a Connected session
\* is in progress), and between calls exactly one when Connected and none
\* when Disconnected.
C16_AtMostOneStream ==
    /\ peakOpen <= 1
    /\ Cardinality(open) = IF is_connected THEN 1 ELSE 0

\* C17: every successful state() call decodes the complete 14-byte reply
\* to the query written by that same call: its query was received whole,
\* no byte of an earlier reply was pending, and the read delivered all 14.
C17_StateDecodesOwnReply ==
    (op = "state" /\ result = "Ok") =>
        (io[1].res = Len(io[1].buf) /\ stale = 0 /\ io[2].res = FeedbackLen)

\* C18: against a controller that reports the power byte of the last
\* SetPower frame it received, a successful state() with full transfers
\* (query written whole, 14 bytes read) that follows a successful power(v)
\* whose frame was written whole, with no other power call in between,
\* returns is_enabled = v, for v = true and v = false.
C18_PowerThenStateAgree ==
    (/\ op = "state" /\ result = "Ok"
     /\ io[1].res = Len(io[1].buf) /\ io[2].res = FeedbackLen
     /\ memo.kind = "power")
        => ret.is_enabled = memo.arg[1]

====
